---- MODULE Spec2Model ----
(***************************************************************************)
(* Model of src/main.py: the Streamlit script that rasterizes an uploaded  *)
(* PDF, sends one Gemini request per page through a ThreadPoolExecutor,    *)
(* joins the page texts in page order, optionally wraps them as LaTeX and  *)
(* derives a character-frequency table from the output.                    *)
(*                                                                         *)
(* Python strings are modelled as sequences of characters, a character     *)
(* being a one-character string; a character outside ASCII is written by   *)
(* its code point ("U+00E9" is the letter e with acute accent).            *)
(* Python's 0-based page index i is position i+1 of the sequences here.    *)
(***************************************************************************)
EXTENDS Integers, Sequences, FiniteSets, TLC

VARIABLES
  uploaded_file,       \* st.session_state.uploaded_file: NoFile or the PDF's page count
  plain_text_convert,  \* st.session_state.plain_text_convert (truthiness)
  markdown_convert,    \* st.session_state.markdown_convert   (truthiness)
  latex_convert,       \* st.session_state.latex_convert      (truthiness)
  images,              \* st.session_state.images
  output,              \* st.session_state.output
  format_selected,     \* st.session_state.format_selected
  pc,                  \* position of the script thread
  tasks,               \* process_file: tasks, the futures in submission order
  work_queue,          \* executor work queue (indices of tasks not yet taken)
  num_threads,         \* executor: len(_threads), the worker threads started
  idle_sem,            \* executor: value of _idle_semaphore
  releasing,           \* workers between storing an outcome and _idle_semaphore.release()
  issued,              \* issued[i]: Transcriber calls entered so far for tasks[i]
  completed,           \* the Transcriber calls that returned, with their outcome
  first_error,         \* the exception raised first in time by a call of this run
  out_of_order,        \* a page's call returned before the call of an earlier page
  results,             \* process_file: the list built for "\n\n".join at line 71
  error,               \* the exception that aborted the script run, or NoError
  pandoc_log,          \* log of pypandoc.convert_text calls of this run
  prev_output,         \* st.session_state.output as it was when the run started
  text,                \* argument of generate_character_frequency
  freq_called,         \* generate_character_frequency was called in this run
  freq_data,           \* freq_data: the data frame returned at line 216
  file_name,           \* file_name argument of the download button
  mime,                \* mime argument of the download button
  trace                \* pipeline-level states visited by this run, in order

vars == << uploaded_file, plain_text_convert, markdown_convert,
           latex_convert, images, output, format_selected, pc, tasks,
           work_queue, num_threads, idle_sem, releasing, issued, completed,
           first_error, out_of_order, results, error, pandoc_log,
           prev_output, text, freq_called, freq_data, file_name, mime,
           trace >>

----------------------------------------------------------------------------
(* Bounds of the model *)

MaxPages == 2

MaxText == 5

MaxParts == 3

(* Program constants *)

max_workers == 10

----------------------------------------------------------------------------
(* Values *)

NoFile == 0

(* an uploaded file that fitz cannot open or render *)
Unreadable == -1

(* what the uploader can hold: nothing, a PDF of 1..MaxPages pages, or a  *)
(* file that is not a readable PDF                                         *)
Files == (0..MaxPages) \cup { Unreadable }

NoError == "none"

NoRes == [ok |-> FALSE, text |-> << >>, error |-> NoError]

Ok(t) == [ok |-> TRUE, text |-> t, error |-> NoError]

Fail(e) == [ok |-> FALSE, text |-> << >>, error |-> e]

Texts == { <<"a">>, <<"#", "b">> }

Errors == { "e1", "e2" }

Responses == { Ok(t) : t \in Texts } \cup { Fail(e) : e \in Errors }

Bodies == { <<"\\", "s", "\n">> }

PandocOutcomes == { Ok(b) : b \in Bodies } \cup { Fail("pandoc") }

Buttons == { <<FALSE, FALSE>>, <<TRUE, FALSE>>, <<FALSE, TRUE>> }

Chars == { "a", "A", "b", "1", " ", "U+00E9" }

Alnum == { "a", "b", "c", "d", "e", "f", "g", "h", "i", "j", "k", "l", "m",
           "n", "o", "p", "q", "r", "s", "t", "u", "v", "w", "x", "y", "z",
           "A", "B", "C", "D", "E", "F", "G", "H", "I", "J", "K", "L", "M",
           "N", "O", "P", "Q", "R", "S", "T", "U", "V", "W", "X", "Y", "Z",
           "0", "1", "2", "3", "4", "5", "6", "7", "8", "9",
           "U+00E9", "U+00DF", "U+4E2D", "U+00B2", "U+00BD", "U+0663" }

(* texts with more distinct letters than numpy's quicksort sorts by      *)
(* insertion: eighteen letters once each, and the same with one repeated   *)
LongTexts == { <<"a", "b", "c", "d", "e", "f", "g", "h", "i", "j", "k", "l",
                 "m", "n", "o", "p", "q", "r">>,
               <<"a", "b", "c", "d", "e", "f", "g", "h", "i", "j", "k", "l",
                 "m", "n", "o", "p", "q", "r", "r">> }

(* st.session_state.output as an earlier run can have left it *)
SessionOutputs == { << >>, <<"a">> }

JoinTexts == { << >>, <<"a">>, <<"\n">>, <<"b", "\n">> }

SeqsUpTo(S, n) == UNION { [1..k -> S] : k \in 0..n }

----------------------------------------------------------------------------
(* Pure functions of the program *)

(* pdf_to_images: one image per page, in page order; fitz.open, load_page *)
(* and get_pixmap raise on a file that is not a readable PDF              *)
pdf_to_images(pdf_file) ==
  IF pdf_file = Unreadable
  THEN [ok |-> FALSE, images |-> << >>, error |-> "FileDataError"]
  ELSE [ok |-> TRUE, images |-> [page_num \in 1..pdf_file |-> page_num],
        error |-> NoError]

get_custom_prompt(format) == <<"base_prompt", " Format: ", format, ".">>

latex_preamble ==
  <<
    "\\", "d", "o", "c", "u", "m", "e", "n", "t", "c", "l", "a",
    "s", "s", "[", "a", "4", "p", "a", "p", "e", "r", "]", "{",
    "a", "r", "t", "i", "c", "l", "e", "}", "\n", "\\", "u", "s",
    "e", "p", "a", "c", "k", "a", "g", "e", "[", "u", "t", "f",
    "8", "]", "{", "i", "n", "p", "u", "t", "e", "n", "c", "}",
    "\n", "\\", "u", "s", "e", "p", "a", "c", "k", "a", "g", "e",
    "{", "g", "e", "o", "m", "e", "t", "r", "y", "}", "\n", "\\",
    "g", "e", "o", "m", "e", "t", "r", "y", "{", "m", "a", "r",
    "g", "i", "n", "=", "1", "i", "n", "}", "\n", "\\", "t", "i",
    "t", "l", "e", "{", "D", "i", "g", "i", "t", "a", "l", "i",
    "z", "e", "d", " ", "N", "o", "t", "e", "s", "}", "\n", "\\",
    "a", "u", "t", "h", "o", "r", "{", "}", "\n", "\\", "d", "a",
    "t", "e", "{", "\\", "t", "o", "d", "a", "y", "}", "\n", "\\",
    "b", "e", "g", "i", "n", "{", "d", "o", "c", "u", "m", "e",
    "n", "t", "}", "\n", "\\", "m", "a", "k", "e", "t", "i", "t",
    "l", "e", "\n" >>

latex_postamble ==
  <<
    "\\", "e", "n", "d", "{", "d", "o", "c", "u", "m", "e", "n",
    "t", "}" >>

md_to_latex_wrong(latex_body) == latex_preamble \o latex_body

(* md_to_latex, given the body pypandoc.convert_text returned for md_content *)
md_to_latex(latex_body) == latex_preamble \o latex_body \o latex_postamble

(* the format chosen at the top of process_file *)
select_format(plain, markdown) ==
  IF plain THEN "Plain Text" ELSE IF markdown THEN "Markdown" ELSE "LaTeX"

(* the test that guards the call of md_to_latex *)
needs_latex(format) == format = "LaTeX"

RECURSIVE str_join_wrong(_, _)
str_join_wrong(sep, items) ==
  IF items = << >> THEN << >>
  ELSE items[1] \o sep \o str_join_wrong(sep, Tail(items))

RECURSIVE str_join(_, _)
(* sep.join(items) *)
str_join(sep, items) ==
  IF items = << >> THEN << >>
  ELSE IF Len(items) = 1 THEN items[1]
  ELSE items[1] \o sep \o str_join(sep, Tail(items))

page_separator == <<"\n", "\n">>

(* char.isalnum(): true of every Unicode letter and numeric character.     *)
(* Alnum holds those of the model's characters: the ASCII letters and      *)
(* digits and, outside ASCII, two letters with diacritics or ligature, a   *)
(* CJK letter, superscript two, the fraction one half and an Arabic-Indic  *)
(* digit; every other character of the model is not alphanumeric.          *)
isalnum(char) == char \in Alnum

(* position of the row of char in an insertion-ordered dict, 0 if absent *)
dict_index(frequency, char) ==
  IF \E k \in 1..Len(frequency) : frequency[k].Character = char
  THEN CHOOSE k \in 1..Len(frequency) : frequency[k].Character = char
  ELSE 0

(* frequency[char] = frequency.get(char, 0) + 1 on an insertion-ordered dict *)
dict_increment(frequency, char) ==
  LET k == dict_index(frequency, char) IN
  IF k = 0 THEN Append(frequency, [Character |-> char, Frequency |-> 1])
  ELSE [frequency EXCEPT ![k].Frequency = @ + 1]

(* one iteration of the counting loop *)
count_char(frequency, char) ==
  IF isalnum(char) THEN dict_increment(frequency, char) ELSE frequency

RECURSIVE count_range(_, _, _, _)
(* iterations lo..hi of the counting loop, applied in order to frequency *)
count_range(frequency, txt, lo, hi) ==
  IF lo > hi THEN frequency
  ELSE IF lo = hi THEN count_char(frequency, txt[lo])
  ELSE LET mid == (lo + hi) \div 2
           counted == count_range(frequency, txt, lo, mid)
       IN (* the dict after iterations lo..mid has a key per character at most *)
          IF Len(counted) <= mid
          THEN count_range(counted, txt, mid + 1, hi)
          ELSE counted

(* the counting loop over txt; list(frequency.items()) is the result *)
count_loop(txt) == count_range(<< >>, txt, 1, Len(txt))

(* df.sort_values(by='Frequency', ascending=False) with the default       *)
(* kind='quicksort': pandas reverses the column, has numpy argsort it       *)
(* ascending and reverses the result. numpy's quicksort of an index array  *)
(* partitions around the median of three while a range holds more than     *)
(* SMALL_QUICKSORT + 1 elements and sorts shorter ranges by insertion. A    *)
(* range nested deeper than twice the bit length of the array would go to  *)
(* heapsort; no frame of fewer than 38 rows gets there. This is numpy's     *)
(* generic routine; a build that hands argsort to a vectorised routine is  *)
(* no more bound to keep equal elements in order.                          *)
SMALL_QUICKSORT == 16

INTP_SWAP(tosort, a, b) == [tosort EXCEPT ![a] = tosort[b], ![b] = tosort[a]]

(* the three compare-and-swap steps that order *pl, *pm, *pr *)
median_of_three(v, tosort, pl, pm, pr) ==
  LET t1 == IF v[tosort[pm]] < v[tosort[pl]]
            THEN INTP_SWAP(tosort, pm, pl) ELSE tosort
      t2 == IF v[t1[pr]] < v[t1[pm]] THEN INTP_SWAP(t1, pr, pm) ELSE t1
  IN IF v[t2[pm]] < v[t2[pl]] THEN INTP_SWAP(t2, pm, pl) ELSE t2

RECURSIVE scan_up(_, _, _, _)
(* do ++pi while v[*pi] < vp *)
scan_up(v, tosort, pi, vp) ==
  IF v[tosort[pi + 1]] < vp THEN scan_up(v, tosort, pi + 1, vp) ELSE pi + 1

RECURSIVE scan_down(_, _, _, _)
(* do --pj while vp < v[*pj] *)
scan_down(v, tosort, pj, vp) ==
  IF vp < v[tosort[pj - 1]] THEN scan_down(v, tosort, pj - 1, vp) ELSE pj - 1

RECURSIVE partition(_, _, _, _, _)
(* the partition loop: elements that stop the two scans are exchanged,     *)
(* equal ones included, until the scans meet                               *)
partition(v, tosort, pi, pj, vp) ==
  LET i == scan_up(v, tosort, pi, vp)
      j == scan_down(v, tosort, pj, vp)
  IN IF i >= j THEN [tosort |-> tosort, pi |-> i]
     ELSE partition(v, INTP_SWAP(tosort, i, j), i, j, vp)

RECURSIVE insertion_point(_, _, _, _, _)
insertion_point(v, tosort, pl, pj, vp) ==
  IF pj > pl /\ vp < v[tosort[pj - 1]]
  THEN insertion_point(v, tosort, pl, pj - 1, vp) ELSE pj

RECURSIVE insertion_sort(_, _, _, _, _)
(* insertion sort of tosort[pl..pr], from position pi on *)
insertion_sort(v, tosort, pl, pr, pi) ==
  IF pi > pr THEN tosort
  ELSE LET vi == tosort[pi]
           pj == insertion_point(v, tosort, pl, pi, v[vi])
           moved == SubSeq(tosort, 1, pj - 1) \o <<vi>>
                      \o SubSeq(tosort, pj, pi - 1)
                      \o SubSeq(tosort, pi + 1, Len(tosort))
       IN insertion_sort(v, moved, pl, pr, pi + 1)

RECURSIVE aquicksort(_, _, _, _)
(* numpy's indirect quicksort of tosort[pl..pr] by the values v *)
aquicksort(v, tosort, pl, pr) ==
  IF pr - pl > SMALL_QUICKSORT
  THEN LET pm == pl + ((pr - pl) \div 2)
           med == median_of_three(v, tosort, pl, pm, pr)
           vp == v[med[pm]]
           part == partition(v, INTP_SWAP(med, pm, pr - 1), pl, pr - 1, vp)
           placed == INTP_SWAP(part.tosort, part.pi, pr - 1)
           left == aquicksort(v, placed, pl, part.pi - 1)
       IN aquicksort(v, left, part.pi + 1, pr)
  ELSE insertion_sort(v, tosort, pl, pr, pl + 1)

RECURSIVE arange(_)
(* the index array 0..n-1 that argsort permutes, as positions 1..n *)
arange(n) == IF n = 0 THEN << >> ELSE Append(arange(n - 1), n)

(* items.argsort(kind='quicksort') *)
argsort(items) == aquicksort(items, arange(Len(items)), 1, Len(items))

reversed(s) == [k \in 1..Len(s) |-> s[Len(s) + 1 - k]]

(* pandas nargsort(items, kind='quicksort', ascending=False) *)
nargsort(items) ==
  LET non_nans == reversed(items)
      non_nan_idx == reversed(arange(Len(items)))
      sorted == argsort(non_nans)
      indexer == [k \in 1..Len(items) |-> non_nan_idx[sorted[k]]]
  IN reversed(indexer)

sort_values(rows) ==
  LET indexer == nargsort([k \in 1..Len(rows) |-> rows[k].Frequency])
  IN [k \in 1..Len(rows) |-> rows[indexer[k]]]

(* file_name of the download button *)
download_file_name(format) ==
  IF format = "Plain Text" THEN "converted_notes.txt"
  ELSE IF format = "Markdown" THEN "converted_notes.md"
  ELSE "converted_notes.tex"

(* mime of the download button *)
download_mime(format) ==
  IF format = "Plain Text" THEN "text/plain"
  ELSE IF format = "Markdown" THEN "text/markdown"
  ELSE "application/x-tex"

(* the data frame generate_character_frequency(text) returns *)
generate_character_frequency(txt) == sort_values(count_loop(txt))

----------------------------------------------------------------------------
(* Helpers over the run's state *)

(* the calls of get_gemini_response that were entered and have not returned *)
Running == { i \in 1..Len(tasks) : tasks[i].st = "running" }

(* the workers that hold a work item *)
Busy == { i \in 1..Len(tasks) : tasks[i].st \in {"taken", "running"} }

AllDone == \A i \in 1..Len(tasks) : tasks[i].st = "done"

(* _adjust_thread_count: a thread is added only below max_workers *)
may_spawn(n) == n < max_workers

(* the workers blocked in work_queue.get: they hold no work item and are  *)
(* not on their way to _idle_semaphore.release()                           *)
waiting_workers == num_threads - Cardinality(Busy) - releasing

skip_last_page(imgs) == Len(imgs) - 1

(* the submit loop runs once for every element of enumerate(images) *)
pages_to_submit(imgs) == Len(imgs)

shutdown_no_wait == Len(tasks) = pages_to_submit(images)

(* the with-block ends after the loop, and its exit is shutdown(wait=True): *)
(* every worker thread is joined, so each has run its last work item and   *)
(* gone through the release that follows it                                *)
shutdown_wait ==
  Len(tasks) = pages_to_submit(images) /\ AllDone /\ releasing = 0

(* tasks.values(): the futures in insertion order, which is page order *)
tasks_values == [j \in 1..Len(tasks) |-> j]

late_bound_image(imgs, i) == imgs[Len(imgs)]

(* image_data of iteration i of enumerate(st.session_state.images) *)
image_data(imgs, i) == imgs[i]

result_swallows(res) == FALSE

first_raised(res) == first_error

(* the exception task.result() re-raises is the one stored in that future *)
raised_error(res) == res.error

(* task.result() raises when the call raised *)
result_raises(res) == ~res.ok

----------------------------------------------------------------------------
(* The script *)

(* initialize_session_state: every key the session lacks gets its empty    *)
(* value. No widget of the script assigns latex_convert, so it stays empty *)
(* and the script calls process_file only after one of the two buttons.    *)
Init ==
  /\ uploaded_file = NoFile
  /\ plain_text_convert = FALSE
  /\ markdown_convert = FALSE
  /\ latex_convert = FALSE
  /\ images = << >>
  /\ output = << >>
  /\ format_selected = ""
  /\ pc = "ready"
  /\ tasks = << >>
  /\ work_queue = << >>
  /\ num_threads = 0
  /\ idle_sem = 0
  /\ releasing = 0
  /\ issued = << >>
  /\ completed = { }
  /\ first_error = NoError
  /\ out_of_order = FALSE
  /\ results = << >>
  /\ error = NoError
  /\ pandoc_log = << >>
  /\ prev_output = << >>
  /\ text = << >>
  /\ freq_called = FALSE
  /\ freq_data = << >>
  /\ file_name = ""
  /\ mime = ""
  /\ trace = << >>

(* One script run from the top down to the test before process_file:       *)
(* the uploader and the two buttons are read and the file in the uploader  *)
(* is rasterized; an exception of pdf_to_images ends the script run there. *)
ScriptRun(file, plain, markdown) ==
  /\ pc = "ready"
  /\ uploaded_file' = file
  /\ plain_text_convert' = plain
  /\ markdown_convert' = markdown
  /\ LET rasterized == pdf_to_images(file) IN
       IF file # NoFile /\ ~rasterized.ok
       THEN /\ error' = rasterized.error
            /\ trace' = <<"Idle", "Failed">>
            /\ pc' = "ready"
            /\ UNCHANGED images
       ELSE /\ images' = IF file # NoFile THEN rasterized.images ELSE images
            /\ error' = NoError
            /\ trace' = IF file # NoFile THEN <<"Idle", "PagesReady">>
                        ELSE <<"Idle">>
            /\ pc' = IF (plain \/ markdown \/ latex_convert) /\ images' # << >>
                     THEN "process_file" ELSE "display"
  /\ tasks' = << >>
  /\ work_queue' = << >>
  /\ issued' = << >>
  /\ completed' = { }
  /\ first_error' = NoError
  /\ out_of_order' = FALSE
  /\ text' = << >>
  /\ results' = << >>
  /\ pandoc_log' = << >>
  /\ prev_output' = output
  /\ freq_called' = FALSE
  /\ freq_data' = << >>
  /\ file_name' = ""
  /\ mime' = ""
  /\ UNCHANGED << latex_convert, output, format_selected, num_threads,
                  idle_sem, releasing >>

(* process_file up to the creation of the executor: a new pool has no      *)
(* thread and its idle semaphore is at 0                                   *)
process_file ==
  /\ pc = "process_file"
  /\ format_selected' = select_format(plain_text_convert, markdown_convert)
  /\ trace' = Append(trace, "Dispatching")
  /\ pc' = "submit"
  /\ num_threads' = 0
  /\ idle_sem' = 0
  /\ releasing' = 0
  /\ UNCHANGED << uploaded_file, plain_text_convert, markdown_convert,
                  latex_convert, images, output, tasks, work_queue, issued,
                  completed, first_error, out_of_order, results, error,
                  pandoc_log, prev_output, text, freq_called, freq_data,
                  file_name, mime >>

(* One iteration of the submit loop, first half: executor.submit creates   *)
(* the future and the work item and puts the item on the queue. The future *)
(* is the one line 68 stores as tasks[i] when submit returns.              *)
Submit ==
  /\ pc = "submit"
  /\ Len(tasks) < pages_to_submit(images)
  /\ LET i == Len(tasks) + 1 IN
       /\ tasks' = Append(tasks, [st |-> "pending",
                                  image |-> image_data(images, i),
                                  prompt |-> get_custom_prompt(format_selected),
                                  res |-> NoRes])
       /\ work_queue' = Append(work_queue, i)
  /\ issued' = Append(issued, 0)
  /\ pc' = "adjust"
  /\ UNCHANGED << uploaded_file, plain_text_convert, markdown_convert,
                  latex_convert, images, output, format_selected, num_threads,
                  idle_sem, releasing, completed, first_error, out_of_order,
                  results, error, pandoc_log, prev_output, text, freq_called,
                  freq_data, file_name, mime, trace >>

(* Second half of executor.submit: _adjust_thread_count. When the idle     *)
(* semaphore can be acquired no thread is started; otherwise one is        *)
(* started if the pool is below max_workers. Workers run between the put   *)
(* and this decision.                                                      *)
adjust_thread_count ==
  /\ pc = "adjust"
  /\ IF idle_sem > 0
     THEN /\ idle_sem' = idle_sem - 1
          /\ UNCHANGED num_threads
     ELSE /\ num_threads' = IF may_spawn(num_threads)
                            THEN num_threads + 1 ELSE num_threads
          /\ UNCHANGED idle_sem
  /\ pc' = "submit"
  /\ UNCHANGED << uploaded_file, plain_text_convert, markdown_convert,
                  latex_convert, images, output, format_selected, tasks,
                  work_queue, releasing, issued, completed, first_error,
                  out_of_order, results, error, pandoc_log, prev_output, text,
                  freq_called, freq_data, file_name, mime, trace >>

(* A worker blocked in work_queue.get takes the oldest work item *)
WorkerTake ==
  /\ work_queue # << >>
  /\ waiting_workers > 0
  /\ tasks' = [tasks EXCEPT ![Head(work_queue)].st = "taken"]
  /\ work_queue' = Tail(work_queue)
  /\ UNCHANGED << uploaded_file, plain_text_convert, markdown_convert,
                  latex_convert, images, output, format_selected, pc,
                  num_threads, idle_sem, releasing, issued, completed,
                  first_error, out_of_order, results, error, pandoc_log,
                  prev_output, text, freq_called, freq_data, file_name, mime,
                  trace >>

(* The worker that took task i enters get_gemini_response: the Transcriber *)
(* call is issued. Workers that took later items may get there first.      *)
WorkerCall(i) ==
  /\ i \in 1..Len(tasks)
  /\ tasks[i].st = "taken"
  /\ tasks' = [tasks EXCEPT ![i].st = "running"]
  /\ issued' = [issued EXCEPT ![i] = @ + 1]
  /\ UNCHANGED << uploaded_file, plain_text_convert, markdown_convert,
                  latex_convert, images, output, format_selected, pc,
                  work_queue, num_threads, idle_sem, releasing, completed,
                  first_error, out_of_order, results, error, pandoc_log,
                  prev_output, text, freq_called, freq_data, file_name, mime,
                  trace >>

(* get_gemini_response returns or raises and the worker stores the outcome *)
(* in the future of the task; no thread reads a future before the          *)
(* with-block has joined the workers. The worker has yet to release the    *)
(* idle semaphore.                                                         *)
WorkerFinish(i, res) ==
  /\ i \in Running
  /\ tasks' = [tasks EXCEPT ![i].st = "done", ![i].res = res]
  /\ completed' = completed \cup {[index |-> i, image |-> tasks[i].image,
                                     res |-> res]}
  /\ first_error' = IF first_error = NoError /\ ~res.ok
                    THEN res.error ELSE first_error
  /\ out_of_order' = (out_of_order \/ \E j \in 1..(i - 1) : tasks[j].st # "done")
  /\ releasing' = releasing + 1
  /\ UNCHANGED << uploaded_file, plain_text_convert, markdown_convert,
                  latex_convert, images, output, format_selected, pc,
                  work_queue, num_threads, idle_sem, issued, results, error,
                  pandoc_log, prev_output, text, freq_called, freq_data,
                  file_name, mime, trace >>

(* A worker that has run a work item releases the idle semaphore and goes  *)
(* back to work_queue.get                                                  *)
WorkerIdle ==
  /\ releasing > 0
  /\ releasing' = releasing - 1
  /\ idle_sem' = idle_sem + 1
  /\ UNCHANGED << uploaded_file, plain_text_convert, markdown_convert,
                  latex_convert, images, output, format_selected, pc, tasks,
                  work_queue, num_threads, issued, completed, first_error,
                  out_of_order, results, error, pandoc_log, prev_output, text,
                  freq_called, freq_data, file_name, mime, trace >>

(* Exit of the with-block; the joined workers are gone with the executor *)
ExitWith ==
  /\ pc = "submit"
  /\ shutdown_wait
  /\ pc' = "collect"
  /\ IF AllDone /\ releasing = 0
     THEN num_threads' = 0 /\ idle_sem' = 0
     ELSE UNCHANGED << num_threads, idle_sem >>
  /\ UNCHANGED << uploaded_file, plain_text_convert, markdown_convert,
                  latex_convert, images, output, format_selected, tasks,
                  work_queue, releasing, issued, completed, first_error,
                  out_of_order, results, error, pandoc_log, prev_output, text,
                  freq_called, freq_data, file_name, mime, trace >>

(* One element of the list comprehension of line 71: task.result() of the  *)
(* next future of tasks.values(); it blocks until the future is set and    *)
(* re-raises the exception of the call, which ends the script run.         *)
CollectStep ==
  /\ pc = "collect"
  /\ Len(results) < Len(tasks_values)
  /\ LET task == tasks[tasks_values[Len(results) + 1]] IN
       /\ task.st = "done"
       /\ IF result_raises(task.res)
          THEN /\ error' = raised_error(task.res)
               /\ results' = << >>
               /\ trace' = Append(trace, "Failed")
               /\ pc' = "ready"
          ELSE /\ results' = Append(results, task.res.text)
               /\ UNCHANGED << error, trace, pc >>
  /\ UNCHANGED << uploaded_file, plain_text_convert, markdown_convert,
                  latex_convert, images, output, format_selected, tasks,
                  work_queue, num_threads, idle_sem, releasing, issued,
                  completed, first_error, out_of_order, pandoc_log, prev_output,
                  text, freq_called, freq_data, file_name, mime >>

(* The join and the assignment of line 71, then the test of line 73 *)
Aggregate ==
  /\ pc = "collect"
  /\ Len(results) = Len(tasks_values)
  /\ output' = str_join(page_separator, results)
  /\ trace' = Append(trace, "Aggregated")
  /\ pc' = IF needs_latex(format_selected) THEN "convert" ELSE "display"
  /\ UNCHANGED << uploaded_file, plain_text_convert, markdown_convert,
                  latex_convert, images, format_selected, tasks, work_queue,
                  num_threads, idle_sem, releasing, issued, completed,
                  first_error, out_of_order, results, error, pandoc_log,
                  prev_output, text, freq_called, freq_data, file_name, mime >>

(* Line 74: md_to_latex(output); pypandoc.convert_text returns a body or   *)
(* raises, and its exception ends the script run.                          *)
Convert(res) ==
  /\ pc = "convert"
  /\ pandoc_log' = Append(pandoc_log, [input |-> output, res |-> res])
  /\ IF res.ok
     THEN /\ output' = md_to_latex(res.text)
          /\ trace' = Append(trace, "Converted")
          /\ pc' = "display"
          /\ UNCHANGED error
     ELSE /\ error' = res.error
          /\ trace' = Append(trace, "Failed")
          /\ pc' = "ready"
          /\ UNCHANGED output
  /\ UNCHANGED << uploaded_file, plain_text_convert, markdown_convert,
                  latex_convert, images, format_selected, tasks, work_queue,
                  num_threads, idle_sem, releasing, issued, completed,
                  first_error, out_of_order, results, prev_output, text,
                  freq_called, freq_data, file_name, mime >>

(* Lines 210-227: the output is shown and, when it is not empty, handed to *)
(* generate_character_frequency, whose data frame goes to the chart; the   *)
(* download button, rendered whether or not there is output, gets its file *)
(* name and mime from format_selected.                                     *)
Display ==
  /\ pc = "display"
  /\ IF output # << >>
     THEN /\ text' = output
          /\ freq_called' = TRUE
          /\ freq_data' = generate_character_frequency(output)
     ELSE UNCHANGED << text, freq_called, freq_data >>
  /\ file_name' = download_file_name(format_selected)
  /\ mime' = download_mime(format_selected)
  /\ trace' = IF Len(trace) > 0 /\ trace[Len(trace)] \in {"Aggregated", "Converted"}
              THEN Append(trace, "Done") ELSE trace
  /\ pc' = "ready"
  /\ UNCHANGED << uploaded_file, plain_text_convert, markdown_convert,
                  latex_convert, images, output, format_selected, tasks,
                  work_queue, num_threads, idle_sem, releasing, issued,
                  completed, first_error, out_of_order, results, error,
                  pandoc_log, prev_output >>

(* The script as Streamlit runs it: the call of md_to_latex at line 74 is *)
(* not among its steps, since process_file is entered only with one of the *)
(* two buttons pressed.                                                    *)
Next ==
  \/ \E file \in Files, b \in Buttons : ScriptRun(file, b[1], b[2])
  \/ process_file
  \/ Submit
  \/ adjust_thread_count
  \/ WorkerTake
  \/ \E i \in 1..Len(tasks) : WorkerCall(i)
  \/ \E i \in 1..Len(tasks), res \in Responses : WorkerFinish(i, res)
  \/ WorkerIdle
  \/ ExitWith
  \/ CollectStep
  \/ Aggregate
  \/ Display

Spec == Init /\ [][Next]_vars

----------------------------------------------------------------------------
(* process_file as a function of the session it reads: one call of it,     *)
(* and the display that follows it in the script, for every combination of *)
(* plain_text_convert and markdown_convert, both empty included, which     *)
(* selects LaTeX.                                                          *)

InitProcessFile ==
  /\ uploaded_file \in 1..MaxPages
  /\ images = pdf_to_images(uploaded_file).images
  /\ \E b \in Buttons : plain_text_convert = b[1] /\ markdown_convert = b[2]
  /\ latex_convert = FALSE
  /\ output \in SessionOutputs
  /\ prev_output = output
  /\ format_selected = ""
  /\ pc = "process_file"
  /\ tasks = << >>
  /\ work_queue = << >>
  /\ num_threads = 0
  /\ idle_sem = 0
  /\ releasing = 0
  /\ issued = << >>
  /\ completed = { }
  /\ first_error = NoError
  /\ out_of_order = FALSE
  /\ results = << >>
  /\ error = NoError
  /\ pandoc_log = << >>
  /\ text = << >>
  /\ freq_called = FALSE
  /\ freq_data = << >>
  /\ file_name = ""
  /\ mime = ""
  /\ trace = <<"Idle", "PagesReady">>

NextProcessFile ==
  \/ process_file
  \/ Submit
  \/ adjust_thread_count
  \/ WorkerTake
  \/ \E i \in 1..Len(tasks) : WorkerCall(i)
  \/ \E i \in 1..Len(tasks), res \in Responses : WorkerFinish(i, res)
  \/ WorkerIdle
  \/ ExitWith
  \/ CollectStep
  \/ Aggregate
  \/ \E res \in PandocOutcomes : Convert(res)
  \/ Display

SpecProcessFile == InitProcessFile /\ [][NextProcessFile]_vars

----------------------------------------------------------------------------
(* The two pure functions on bounded inputs: the join of line 71 applied   *)
(* to any list of page texts, generate_character_frequency to any text.    *)

InitPure ==
  /\ uploaded_file = NoFile
  /\ plain_text_convert = FALSE
  /\ markdown_convert = FALSE
  /\ latex_convert = FALSE
  /\ images = << >>
  /\ output = << >>
  /\ format_selected = ""
  /\ tasks = << >>
  /\ work_queue = << >>
  /\ num_threads = 0
  /\ idle_sem = 0
  /\ releasing = 0
  /\ issued = << >>
  /\ completed = { }
  /\ first_error = NoError
  /\ out_of_order = FALSE
  /\ error = NoError
  /\ pandoc_log = << >>
  /\ prev_output = << >>
  /\ freq_called = FALSE
  /\ freq_data = << >>
  /\ file_name = ""
  /\ mime = ""
  /\ trace = << >>
  /\ \/ /\ pc = "join"
        /\ results \in SeqsUpTo(JoinTexts, MaxParts)
        /\ text = << >>
     \/ /\ pc = "frequency"
        /\ results = << >>
        /\ text \in SeqsUpTo(Chars, MaxText) \cup LongTexts

ApplyJoin ==
  /\ pc = "join"
  /\ output' = str_join(page_separator, results)
  /\ pc' = "joined"
  /\ UNCHANGED << uploaded_file, plain_text_convert, markdown_convert,
                  latex_convert, images, format_selected, tasks, work_queue,
                  num_threads, idle_sem, releasing, issued, completed,
                  first_error, out_of_order, results, error, pandoc_log,
                  prev_output, text, freq_called, freq_data, file_name, mime,
                  trace >>

ApplyFrequency ==
  /\ pc = "frequency"
  /\ freq_data' = generate_character_frequency(text)
  /\ freq_called' = TRUE
  /\ pc' = "counted"
  /\ UNCHANGED << uploaded_file, plain_text_convert, markdown_convert,
                  latex_convert, images, output, format_selected, tasks,
                  work_queue, num_threads, idle_sem, releasing, issued,
                  completed, first_error, out_of_order, results, error,
                  pandoc_log, prev_output, text, file_name, mime, trace >>

NextPure == ApplyJoin \/ ApplyFrequency

SpecPure == InitPure /\ [][NextPure]_vars

----------------------------------------------------------------------------
(* Properties *)

InTrace(st) == \E k \in 1..Len(trace) : trace[k] = st

FailedPages == { i \in 1..Len(tasks) : tasks[i].st = "done" /\ ~tasks[i].res.ok }

(* C1: the list handed to the join holds, at position i, the text the      *)
(* Transcriber returned for the image of page i, whatever the order in     *)
(* which the calls returned, and holds all pages once the join is done.    *)
C1_ResultsInPageOrder ==
  (pc \in {"collect", "convert", "display", "ready"}) =>
    /\ \A j \in 1..Len(results) :
         /\ \E c \in completed : c.image = images[j]
         /\ \A c \in completed :
              c.image = images[j] => c.res.ok /\ c.res.text = results[j]
    /\ InTrace("Aggregated") => Len(results) = Len(images)

C1_Witness ==
  /\ InTrace("Aggregated")
  /\ out_of_order
  /\ Len(results) = 2
  /\ results[1] # results[2]

(* C3: once a page's call has failed, the run assigns no output, calls no  *)
(* converter, computes no frequency table and never reaches the display.   *)
C3_FailedRunProducesNothing ==
  (\E c \in completed : ~c.res.ok) =>
    /\ output = prev_output
    /\ pandoc_log = << >>
    /\ ~freq_called /\ freq_data = << >>
    /\ ~InTrace("Aggregated") /\ ~InTrace("Converted") /\ ~InTrace("Done")
    /\ pc \notin {"convert", "display"}
    /\ pc = "ready" => error \in Errors /\ InTrace("Failed")

C3_Witness ==
  /\ pc = "ready"
  /\ error \in Errors
  /\ Len(tasks) = 2
  /\ tasks[1].res.ok /\ ~tasks[2].res.ok
  /\ format_selected = "LaTeX"
  /\ prev_output # << >>

(* C4: the error that ends a run is the error of the failed page with the  *)
(* lowest index, and nothing of the pages that succeeded is kept.          *)
C4_LowestIndexError ==
  (error \in Errors) =>
    /\ \E i \in FailedPages :
         /\ error = tasks[i].res.error
         /\ \A j \in 1..(i - 1) : tasks[j].res.ok
    /\ results = << >>
    /\ output = prev_output

C4_Witness ==
  /\ error \in Errors
  /\ Cardinality(FailedPages) >= 2
  /\ first_error # error
  /\ prev_output # << >>

(* C5: results are consumed and errors surface only when every page has    *)
(* been submitted and every call has returned; a failed call leaves the    *)
(* calls of the other pages to run.                                        *)
C5_ReturnsAfterAllCompleted ==
  (pc = "collect" \/ error \in Errors \/ Len(results) > 0) =>
    /\ Len(tasks) = Len(images)
    /\ AllDone
    /\ releasing = 0
    /\ work_queue = << >>
    /\ Cardinality(completed) = Len(images)

C5_Witness ==
  /\ error \in Errors
  /\ Len(tasks) = 2
  /\ tasks[1].res.ok
  /\ ~tasks[2].res.ok
  /\ out_of_order

Sum(f, n) == LET RECURSIVE S(_)
                 S(k) == IF k = 0 THEN 0 ELSE f[k] + S(k - 1)
             IN S(n)

Offset(i) == Sum([k \in 1..Len(results) |-> Len(results[k]) + 2], i - 1)

(* C6: the joined text is the page texts in order with "\n\n" between      *)
(* consecutive texts and nowhere else; for no texts it is empty.           *)
C6_JoinedByBlankLine ==
  (pc = "joined") =>
    /\ results = << >> => output = << >>
    /\ results # << >> =>
         /\ Len(output) = Offset(Len(results)) + Len(results[Len(results)])
         /\ \A i \in 1..Len(results) :
              SubSeq(output, Offset(i) + 1, Offset(i) + Len(results[i]))
                = results[i]
         /\ \A i \in 1..(Len(results) - 1) :
              /\ output[Offset(i) + Len(results[i]) + 1] = "\n"
              /\ output[Offset(i) + Len(results[i]) + 2] = "\n"

C6_Witness ==
  /\ pc = "joined"
  /\ results = << <<"a">>, << >>, <<"b", "\n">> >>
  /\ output = <<"a", "\n", "\n", "\n", "\n", "b", "\n">>

Postamble ==
  <<"\\", "e", "n", "d", "{", "d", "o", "c", "u", "m", "e", "n", "t", "}">>

RunSucceeded == InTrace("Aggregated") /\ pc \in {"display", "ready"} /\ error = NoError

(* C7: for Plain Text and Markdown the output is the aggregated text and   *)
(* the markup transform is not called; for LaTeX the transform is called   *)
(* once on the aggregated text, the output is preamble + body +            *)
(* "\end{document}", and a failing transform fails the run.                *)
C7_PostProcessingByFormat ==
  /\ pandoc_log # << >> => format_selected = "LaTeX"
  /\ Len(pandoc_log) <= 1
  /\ RunSucceeded /\ format_selected \in {"Plain Text", "Markdown"} =>
       /\ output = str_join(page_separator, results)
       /\ pandoc_log = << >>
  /\ RunSucceeded /\ format_selected = "LaTeX" =>
       /\ Len(pandoc_log) = 1
       /\ pandoc_log[1].res.ok
       /\ pandoc_log[1].input = str_join(page_separator, results)
       /\ output = latex_preamble \o pandoc_log[1].res.text \o Postamble
       /\ SubSeq(output, 1, 14)
            = <<"\\", "d", "o", "c", "u", "m", "e", "n", "t", "c", "l", "a", "s", "s">>
  /\ (pandoc_log # << >> /\ ~pandoc_log[1].res.ok) =>
       /\ pc = "ready"
       /\ error = pandoc_log[1].res.error
       /\ ~InTrace("Done")
       /\ ~freq_called

C7_Witness ==
  /\ pc = "ready"
  /\ InTrace("Converted")
  /\ Len(results) = 2
  /\ freq_called
  /\ text = output

Occurrences(ch) == Cardinality({ k \in 1..Len(text) : text[k] = ch })

FirstOccurrence(ch) == CHOOSE k \in 1..Len(text) :
                         text[k] = ch /\ \A j \in 1..(k - 1) : text[j] # ch

LettersAndDigits == { text[k] : k \in 1..Len(text) } \cap Alnum

FrequencyRowsExact ==
  /\ { freq_data[k].Character : k \in 1..Len(freq_data) } = LettersAndDigits
  /\ Len(freq_data) = Cardinality(LettersAndDigits)
  /\ \A k \in 1..Len(freq_data) :
       freq_data[k].Frequency = Occurrences(freq_data[k].Character)
  /\ \A k \in 1..(Len(freq_data) - 1) :
       freq_data[k].Frequency >= freq_data[k + 1].Frequency

(* C8, as claimed: one row per distinct letter or digit with its count,    *)
(* by count descending, equal counts in order of first occurrence.         *)
C8_Original ==
  (pc = "counted") =>
    /\ FrequencyRowsExact
    /\ \A k \in 1..(Len(freq_data) - 1) :
         freq_data[k].Frequency = freq_data[k + 1].Frequency =>
           FirstOccurrence(freq_data[k].Character)
             < FirstOccurrence(freq_data[k + 1].Character)

(* C9: every page gets exactly one Transcriber call, with its own image,   *)
(* and the outcome of the call is stored in the future of that page only.  *)
C9_OneCallPerPage ==
  /\ Len(issued) = Len(tasks)
  /\ Len(tasks) <= Len(images)
  /\ \A i \in 1..Len(tasks) :
       /\ issued[i] <= 1
       /\ issued[i] = 1 <=> tasks[i].st \in {"running", "done"}
       /\ tasks[i].image = images[i]
       /\ \A j \in 1..Len(tasks) : i # j => tasks[i].image # tasks[j].image
  /\ \A c \in completed :
       /\ c.image = images[c.index]
       /\ tasks[c.index].st = "done" /\ tasks[c.index].res = c.res
  /\ Cardinality(completed) = Cardinality({ i \in 1..Len(tasks) : tasks[i].st = "done" })
  /\ (InTrace("Dispatching") /\ (pc \in {"collect", "convert"}
         \/ InTrace("Aggregated") \/ InTrace("Failed"))) =>
       /\ Len(tasks) = Len(images)
       /\ \A i \in 1..Len(tasks) : issued[i] = 1
       /\ { c.index : c \in completed } = 1..Len(images)

C9_Witness ==
  /\ InTrace("Failed")
  /\ error \in Errors
  /\ Len(images) = 2
  /\ issued = <<1, 1>>
  /\ Cardinality(FailedPages) = 2
  /\ out_of_order

OriginalEdge(a, b) ==
  \/ a = "Idle" /\ b = "PagesReady"
  \/ a = "PagesReady" /\ b = "Dispatching"
  \/ a = "Dispatching" /\ b \in {"Aggregated", "Failed"}
  \/ a = "Aggregated" /\ b = "Converted" /\ format_selected = "LaTeX"
  \/ a = "Converted" /\ b = "Done"
  \/ a = "Aggregated" /\ b = "Done" /\ format_selected # "LaTeX"

SinglePass ==
  /\ \A a, b \in 1..Len(trace) : a # b => trace[a] # trace[b]
  /\ Len(trace) > 0 => trace[1] = "Idle"

(* C10, as claimed: a run moves only along Idle, PagesReady, Dispatching,  *)
(* Aggregated or Failed, Converted (LaTeX only), Done, entering no state   *)
(* twice.                                                                  *)
C10_Original ==
  /\ SinglePass
  /\ \A k \in 1..(Len(trace) - 1) : OriginalEdge(trace[k], trace[k + 1])

====
